---- MODULE Spec2Model ----
(***************************************************************************)
(* Model of BackEnd/envSetter.py: the interactive collector that prompts   *)
(* for configuration values and writes them to a .env file.                *)
(*                                                                         *)
(* A Python str is a sequence of Unicode code points (natural numbers);    *)
(* the text a sequence stands for is given in a comment next to it.  The   *)
(* content of the .env file is such a sequence too, with 10 for the        *)
(* newline, and NoFile when the path does not exist.  The character        *)
(* tables are those of the Unicode database of the interpreter (14.0).     *)
(*                                                                         *)
(* Standard output is taken to accept every character the program prints   *)
(* and the operator not to interrupt the run; standard input may end at    *)
(* any prompt.                                                             *)
(***************************************************************************)
EXTENDS Integers, Sequences, FiniteSets, TLC

VARIABLES pc, file0, file, config, yn, call, hist, reprompts, typed, shown,
          printed, exc, ret, status, arg, res

vars == <<pc, file0, file, config, yn, call, hist, reprompts, typed, shown,
          printed, exc, ret, status, arg, res>>

(* ------------------------------ bounds --------------------------------- *)
\* non-empty lines the operator types in one run
MaxTyped == 3
\* rejected responses to one prompt
MaxReprompts == 2
\* length of the strings given to validate_port
MaxLen == 5
\* characters that reach the file before a write fails
MaxWritten == 3

(* ------------------------------ str ------------------------------------ *)
\* c lies in one of the ranges <<first, last>> of table R
InRanges(c, R) == \E i \in 1..Len(R) : R[i][1] <= c /\ c <= R[i][2]

\* the characters str.isspace() holds for
WhiteSpace ==
  << <<9, 13>>, <<28, 32>>, <<133, 133>>, <<160, 160>>, <<5760, 5760>>, <<8192, 8202>>,
     <<8232, 8233>>, <<8239, 8239>>, <<8287, 8287>>, <<12288, 12288>> >>

\* the code point of 0 in each run of ten Unicode decimal digits
DecimalZeros ==
  << 48, 1632, 1776, 1984, 2406, 2534, 2662, 2790, 2918, 3046,
     3174, 3302, 3430, 3558, 3664, 3792, 3872, 4160, 4240, 6112,
     6160, 6470, 6608, 6784, 6800, 6992, 7088, 7232, 7248, 42528,
     43216, 43264, 43472, 43504, 43600, 44016, 65296, 66720, 68912, 69734,
     69872, 69942, 70096, 70384, 70736, 70864, 71248, 71360, 71472, 71904,
     72016, 72784, 73040, 73120, 92768, 92864, 93008, 120782, 120792, 120802,
     120812, 120822, 123200, 123632, 125264, 130032 >>

\* the characters str.isdigit() holds for: the decimal digits and the
\* superscript, subscript, circled and other characters with a digit value
DigitRanges ==
  << <<48, 57>>, <<178, 179>>, <<185, 185>>, <<1632, 1641>>, <<1776, 1785>>, <<1984, 1993>>,
     <<2406, 2415>>, <<2534, 2543>>, <<2662, 2671>>, <<2790, 2799>>, <<2918, 2927>>, <<3046, 3055>>,
     <<3174, 3183>>, <<3302, 3311>>, <<3430, 3439>>, <<3558, 3567>>, <<3664, 3673>>, <<3792, 3801>>,
     <<3872, 3881>>, <<4160, 4169>>, <<4240, 4249>>, <<4969, 4977>>, <<6112, 6121>>, <<6160, 6169>>,
     <<6470, 6479>>, <<6608, 6618>>, <<6784, 6793>>, <<6800, 6809>>, <<6992, 7001>>, <<7088, 7097>>,
     <<7232, 7241>>, <<7248, 7257>>, <<8304, 8304>>, <<8308, 8313>>, <<8320, 8329>>, <<9312, 9320>>,
     <<9332, 9340>>, <<9352, 9360>>, <<9450, 9450>>, <<9461, 9469>>, <<9471, 9471>>, <<10102, 10110>>,
     <<10112, 10120>>, <<10122, 10130>>, <<42528, 42537>>, <<43216, 43225>>, <<43264, 43273>>, <<43472, 43481>>,
     <<43504, 43513>>, <<43600, 43609>>, <<44016, 44025>>, <<65296, 65305>>, <<66720, 66729>>, <<68160, 68163>>,
     <<68912, 68921>>, <<69216, 69224>>, <<69714, 69722>>, <<69734, 69743>>, <<69872, 69881>>, <<69942, 69951>>,
     <<70096, 70105>>, <<70384, 70393>>, <<70736, 70745>>, <<70864, 70873>>, <<71248, 71257>>, <<71360, 71369>>,
     <<71472, 71481>>, <<71904, 71913>>, <<72016, 72025>>, <<72784, 72793>>, <<73040, 73049>>, <<73120, 73129>>,
     <<92768, 92777>>, <<92864, 92873>>, <<93008, 93017>>, <<120782, 120831>>, <<123200, 123209>>, <<123632, 123641>>,
     <<125264, 125273>>, <<127232, 127242>>, <<130032, 130041>> >>

\* str.lower(): <<first, last, step, delta>> maps first, first + step, ...,
\* last to the character delta further on
LowerRuns ==
  << <<65, 90, 1, 32>>, <<192, 214, 1, 32>>, <<216, 222, 1, 32>>, <<256, 302, 2, 1>>,
     <<306, 310, 2, 1>>, <<313, 327, 2, 1>>, <<330, 374, 2, 1>>, <<376, 376, 1, -121>>,
     <<377, 381, 2, 1>>, <<385, 385, 1, 210>>, <<386, 388, 2, 1>>, <<390, 390, 1, 206>>,
     <<391, 391, 1, 1>>, <<393, 394, 1, 205>>, <<395, 395, 1, 1>>, <<398, 398, 1, 79>>,
     <<399, 399, 1, 202>>, <<400, 400, 1, 203>>, <<401, 401, 1, 1>>, <<403, 403, 1, 205>>,
     <<404, 404, 1, 207>>, <<406, 406, 1, 211>>, <<407, 407, 1, 209>>, <<408, 408, 1, 1>>,
     <<412, 412, 1, 211>>, <<413, 413, 1, 213>>, <<415, 415, 1, 214>>, <<416, 420, 2, 1>>,
     <<422, 422, 1, 218>>, <<423, 423, 1, 1>>, <<425, 425, 1, 218>>, <<428, 428, 1, 1>>,
     <<430, 430, 1, 218>>, <<431, 431, 1, 1>>, <<433, 434, 1, 217>>, <<435, 437, 2, 1>>,
     <<439, 439, 1, 219>>, <<440, 440, 1, 1>>, <<444, 444, 1, 1>>, <<452, 452, 1, 2>>,
     <<453, 453, 1, 1>>, <<455, 455, 1, 2>>, <<456, 456, 1, 1>>, <<458, 458, 1, 2>>,
     <<459, 475, 2, 1>>, <<478, 494, 2, 1>>, <<497, 497, 1, 2>>, <<498, 500, 2, 1>>,
     <<502, 502, 1, -97>>, <<503, 503, 1, -56>>, <<504, 542, 2, 1>>, <<544, 544, 1, -130>>,
     <<546, 562, 2, 1>>, <<570, 570, 1, 10795>>, <<571, 571, 1, 1>>, <<573, 573, 1, -163>>,
     <<574, 574, 1, 10792>>, <<577, 577, 1, 1>>, <<579, 579, 1, -195>>, <<580, 580, 1, 69>>,
     <<581, 581, 1, 71>>, <<582, 590, 2, 1>>, <<880, 882, 2, 1>>, <<886, 886, 1, 1>>,
     <<895, 895, 1, 116>>, <<902, 902, 1, 38>>, <<904, 906, 1, 37>>, <<908, 908, 1, 64>>,
     <<910, 911, 1, 63>>, <<913, 929, 1, 32>>, <<931, 939, 1, 32>>, <<975, 975, 1, 8>>,
     <<984, 1006, 2, 1>>, <<1012, 1012, 1, -60>>, <<1015, 1015, 1, 1>>, <<1017, 1017, 1, -7>>,
     <<1018, 1018, 1, 1>>, <<1021, 1023, 1, -130>>, <<1024, 1039, 1, 80>>, <<1040, 1071, 1, 32>>,
     <<1120, 1152, 2, 1>>, <<1162, 1214, 2, 1>>, <<1216, 1216, 1, 15>>, <<1217, 1229, 2, 1>>,
     <<1232, 1326, 2, 1>>, <<1329, 1366, 1, 48>>, <<4256, 4293, 1, 7264>>, <<4295, 4295, 1, 7264>>,
     <<4301, 4301, 1, 7264>>, <<5024, 5103, 1, 38864>>, <<5104, 5109, 1, 8>>, <<7312, 7354, 1, -3008>>,
     <<7357, 7359, 1, -3008>>, <<7680, 7828, 2, 1>>, <<7838, 7838, 1, -7615>>, <<7840, 7934, 2, 1>>,
     <<7944, 7951, 1, -8>>, <<7960, 7965, 1, -8>>, <<7976, 7983, 1, -8>>, <<7992, 7999, 1, -8>>,
     <<8008, 8013, 1, -8>>, <<8025, 8031, 2, -8>>, <<8040, 8047, 1, -8>>, <<8072, 8079, 1, -8>>,
     <<8088, 8095, 1, -8>>, <<8104, 8111, 1, -8>>, <<8120, 8121, 1, -8>>, <<8122, 8123, 1, -74>>,
     <<8124, 8124, 1, -9>>, <<8136, 8139, 1, -86>>, <<8140, 8140, 1, -9>>, <<8152, 8153, 1, -8>>,
     <<8154, 8155, 1, -100>>, <<8168, 8169, 1, -8>>, <<8170, 8171, 1, -112>>, <<8172, 8172, 1, -7>>,
     <<8184, 8185, 1, -128>>, <<8186, 8187, 1, -126>>, <<8188, 8188, 1, -9>>, <<8486, 8486, 1, -7517>>,
     <<8490, 8490, 1, -8383>>, <<8491, 8491, 1, -8262>>, <<8498, 8498, 1, 28>>, <<8544, 8559, 1, 16>>,
     <<8579, 8579, 1, 1>>, <<9398, 9423, 1, 26>>, <<11264, 11311, 1, 48>>, <<11360, 11360, 1, 1>>,
     <<11362, 11362, 1, -10743>>, <<11363, 11363, 1, -3814>>, <<11364, 11364, 1, -10727>>, <<11367, 11371, 2, 1>>,
     <<11373, 11373, 1, -10780>>, <<11374, 11374, 1, -10749>>, <<11375, 11375, 1, -10783>>, <<11376, 11376, 1, -10782>>,
     <<11378, 11378, 1, 1>>, <<11381, 11381, 1, 1>>, <<11390, 11391, 1, -10815>>, <<11392, 11490, 2, 1>>,
     <<11499, 11501, 2, 1>>, <<11506, 11506, 1, 1>>, <<42560, 42604, 2, 1>>, <<42624, 42650, 2, 1>>,
     <<42786, 42798, 2, 1>>, <<42802, 42862, 2, 1>>, <<42873, 42875, 2, 1>>, <<42877, 42877, 1, -35332>>,
     <<42878, 42886, 2, 1>>, <<42891, 42891, 1, 1>>, <<42893, 42893, 1, -42280>>, <<42896, 42898, 2, 1>>,
     <<42902, 42920, 2, 1>>, <<42922, 42922, 1, -42308>>, <<42923, 42923, 1, -42319>>, <<42924, 42924, 1, -42315>>,
     <<42925, 42925, 1, -42305>>, <<42926, 42926, 1, -42308>>, <<42928, 42928, 1, -42258>>, <<42929, 42929, 1, -42282>>,
     <<42930, 42930, 1, -42261>>, <<42931, 42931, 1, 928>>, <<42932, 42946, 2, 1>>, <<42948, 42948, 1, -48>>,
     <<42949, 42949, 1, -42307>>, <<42950, 42950, 1, -35384>>, <<42951, 42953, 2, 1>>, <<42960, 42960, 1, 1>>,
     <<42966, 42968, 2, 1>>, <<42997, 42997, 1, 1>>, <<65313, 65338, 1, 32>>, <<66560, 66599, 1, 40>>,
     <<66736, 66771, 1, 40>>, <<66928, 66964, 2, 39>>, <<66929, 66937, 2, 39>>, <<66941, 66953, 2, 39>>,
     <<66957, 66961, 2, 39>>, <<66965, 66965, 1, 39>>, <<68736, 68786, 1, 64>>, <<71840, 71871, 1, 32>>,
     <<93760, 93791, 1, 32>>, <<125184, 125217, 1, 34>> >>

\* the cased characters that are not case-ignorable
CasedRanges ==
  << <<65, 90>>, <<97, 122>>, <<170, 170>>, <<181, 181>>, <<186, 186>>, <<192, 214>>,
     <<216, 246>>, <<248, 442>>, <<444, 447>>, <<452, 659>>, <<661, 687>>, <<880, 883>>,
     <<886, 887>>, <<891, 893>>, <<895, 895>>, <<902, 902>>, <<904, 906>>, <<908, 908>>,
     <<910, 929>>, <<931, 1013>>, <<1015, 1153>>, <<1162, 1327>>, <<1329, 1366>>, <<1376, 1416>>,
     <<4256, 4293>>, <<4295, 4295>>, <<4301, 4301>>, <<4304, 4346>>, <<4349, 4351>>, <<5024, 5109>>,
     <<5112, 5117>>, <<7296, 7304>>, <<7312, 7354>>, <<7357, 7359>>, <<7424, 7467>>, <<7531, 7543>>,
     <<7545, 7578>>, <<7680, 7957>>, <<7960, 7965>>, <<7968, 8005>>, <<8008, 8013>>, <<8016, 8023>>,
     <<8025, 8025>>, <<8027, 8027>>, <<8029, 8029>>, <<8031, 8061>>, <<8064, 8116>>, <<8118, 8124>>,
     <<8126, 8126>>, <<8130, 8132>>, <<8134, 8140>>, <<8144, 8147>>, <<8150, 8155>>, <<8160, 8172>>,
     <<8178, 8180>>, <<8182, 8188>>, <<8450, 8450>>, <<8455, 8455>>, <<8458, 8467>>, <<8469, 8469>>,
     <<8473, 8477>>, <<8484, 8484>>, <<8486, 8486>>, <<8488, 8488>>, <<8490, 8493>>, <<8495, 8500>>,
     <<8505, 8505>>, <<8508, 8511>>, <<8517, 8521>>, <<8526, 8526>>, <<8544, 8575>>, <<8579, 8580>>,
     <<9398, 9449>>, <<11264, 11387>>, <<11390, 11492>>, <<11499, 11502>>, <<11506, 11507>>, <<11520, 11557>>,
     <<11559, 11559>>, <<11565, 11565>>, <<42560, 42605>>, <<42624, 42651>>, <<42786, 42863>>, <<42865, 42887>>,
     <<42891, 42894>>, <<42896, 42954>>, <<42960, 42961>>, <<42963, 42963>>, <<42965, 42969>>, <<42997, 42998>>,
     <<43002, 43002>>, <<43824, 43866>>, <<43872, 43880>>, <<43888, 43967>>, <<64256, 64262>>, <<64275, 64279>>,
     <<65313, 65338>>, <<65345, 65370>>, <<66560, 66639>>, <<66736, 66771>>, <<66776, 66811>>, <<66928, 66938>>,
     <<66940, 66954>>, <<66956, 66962>>, <<66964, 66965>>, <<66967, 66977>>, <<66979, 66993>>, <<66995, 67001>>,
     <<67003, 67004>>, <<68736, 68786>>, <<68800, 68850>>, <<71840, 71903>>, <<93760, 93823>>, <<119808, 119892>>,
     <<119894, 119964>>, <<119966, 119967>>, <<119970, 119970>>, <<119973, 119974>>, <<119977, 119980>>, <<119982, 119993>>,
     <<119995, 119995>>, <<119997, 120003>>, <<120005, 120069>>, <<120071, 120074>>, <<120077, 120084>>, <<120086, 120092>>,
     <<120094, 120121>>, <<120123, 120126>>, <<120128, 120132>>, <<120134, 120134>>, <<120138, 120144>>, <<120146, 120485>>,
     <<120488, 120512>>, <<120514, 120538>>, <<120540, 120570>>, <<120572, 120596>>, <<120598, 120628>>, <<120630, 120654>>,
     <<120656, 120686>>, <<120688, 120712>>, <<120714, 120744>>, <<120746, 120770>>, <<120772, 120779>>, <<122624, 122633>>,
     <<122635, 122654>>, <<125184, 125251>>, <<127280, 127305>>, <<127312, 127337>>, <<127344, 127369>> >>

\* the case-ignorable characters
CaseIgnorableRanges ==
  << <<39, 39>>, <<46, 46>>, <<58, 58>>, <<94, 94>>, <<96, 96>>, <<168, 168>>,
     <<173, 173>>, <<175, 175>>, <<180, 180>>, <<183, 184>>, <<688, 879>>, <<884, 885>>,
     <<890, 890>>, <<900, 901>>, <<903, 903>>, <<1155, 1161>>, <<1369, 1369>>, <<1375, 1375>>,
     <<1425, 1469>>, <<1471, 1471>>, <<1473, 1474>>, <<1476, 1477>>, <<1479, 1479>>, <<1524, 1524>>,
     <<1536, 1541>>, <<1552, 1562>>, <<1564, 1564>>, <<1600, 1600>>, <<1611, 1631>>, <<1648, 1648>>,
     <<1750, 1757>>, <<1759, 1768>>, <<1770, 1773>>, <<1807, 1807>>, <<1809, 1809>>, <<1840, 1866>>,
     <<1958, 1968>>, <<2027, 2037>>, <<2042, 2042>>, <<2045, 2045>>, <<2070, 2093>>, <<2137, 2139>>,
     <<2184, 2184>>, <<2192, 2193>>, <<2200, 2207>>, <<2249, 2306>>, <<2362, 2362>>, <<2364, 2364>>,
     <<2369, 2376>>, <<2381, 2381>>, <<2385, 2391>>, <<2402, 2403>>, <<2417, 2417>>, <<2433, 2433>>,
     <<2492, 2492>>, <<2497, 2500>>, <<2509, 2509>>, <<2530, 2531>>, <<2558, 2558>>, <<2561, 2562>>,
     <<2620, 2620>>, <<2625, 2626>>, <<2631, 2632>>, <<2635, 2637>>, <<2641, 2641>>, <<2672, 2673>>,
     <<2677, 2677>>, <<2689, 2690>>, <<2748, 2748>>, <<2753, 2757>>, <<2759, 2760>>, <<2765, 2765>>,
     <<2786, 2787>>, <<2810, 2815>>, <<2817, 2817>>, <<2876, 2876>>, <<2879, 2879>>, <<2881, 2884>>,
     <<2893, 2893>>, <<2901, 2902>>, <<2914, 2915>>, <<2946, 2946>>, <<3008, 3008>>, <<3021, 3021>>,
     <<3072, 3072>>, <<3076, 3076>>, <<3132, 3132>>, <<3134, 3136>>, <<3142, 3144>>, <<3146, 3149>>,
     <<3157, 3158>>, <<3170, 3171>>, <<3201, 3201>>, <<3260, 3260>>, <<3263, 3263>>, <<3270, 3270>>,
     <<3276, 3277>>, <<3298, 3299>>, <<3328, 3329>>, <<3387, 3388>>, <<3393, 3396>>, <<3405, 3405>>,
     <<3426, 3427>>, <<3457, 3457>>, <<3530, 3530>>, <<3538, 3540>>, <<3542, 3542>>, <<3633, 3633>>,
     <<3636, 3642>>, <<3654, 3662>>, <<3761, 3761>>, <<3764, 3772>>, <<3782, 3782>>, <<3784, 3789>>,
     <<3864, 3865>>, <<3893, 3893>>, <<3895, 3895>>, <<3897, 3897>>, <<3953, 3966>>, <<3968, 3972>>,
     <<3974, 3975>>, <<3981, 3991>>, <<3993, 4028>>, <<4038, 4038>>, <<4141, 4144>>, <<4146, 4151>>,
     <<4153, 4154>>, <<4157, 4158>>, <<4184, 4185>>, <<4190, 4192>>, <<4209, 4212>>, <<4226, 4226>>,
     <<4229, 4230>>, <<4237, 4237>>, <<4253, 4253>>, <<4348, 4348>>, <<4957, 4959>>, <<5906, 5908>>,
     <<5938, 5939>>, <<5970, 5971>>, <<6002, 6003>>, <<6068, 6069>>, <<6071, 6077>>, <<6086, 6086>>,
     <<6089, 6099>>, <<6103, 6103>>, <<6109, 6109>>, <<6155, 6159>>, <<6211, 6211>>, <<6277, 6278>>,
     <<6313, 6313>>, <<6432, 6434>>, <<6439, 6440>>, <<6450, 6450>>, <<6457, 6459>>, <<6679, 6680>>,
     <<6683, 6683>>, <<6742, 6742>>, <<6744, 6750>>, <<6752, 6752>>, <<6754, 6754>>, <<6757, 6764>>,
     <<6771, 6780>>, <<6783, 6783>>, <<6823, 6823>>, <<6832, 6862>>, <<6912, 6915>>, <<6964, 6964>>,
     <<6966, 6970>>, <<6972, 6972>>, <<6978, 6978>>, <<7019, 7027>>, <<7040, 7041>>, <<7074, 7077>>,
     <<7080, 7081>>, <<7083, 7085>>, <<7142, 7142>>, <<7144, 7145>>, <<7149, 7149>>, <<7151, 7153>>,
     <<7212, 7219>>, <<7222, 7223>>, <<7288, 7293>>, <<7376, 7378>>, <<7380, 7392>>, <<7394, 7400>>,
     <<7405, 7405>>, <<7412, 7412>>, <<7416, 7417>>, <<7468, 7530>>, <<7544, 7544>>, <<7579, 7679>>,
     <<8125, 8125>>, <<8127, 8129>>, <<8141, 8143>>, <<8157, 8159>>, <<8173, 8175>>, <<8189, 8190>>,
     <<8203, 8207>>, <<8216, 8217>>, <<8228, 8228>>, <<8231, 8231>>, <<8234, 8238>>, <<8288, 8292>>,
     <<8294, 8303>>, <<8305, 8305>>, <<8319, 8319>>, <<8336, 8348>>, <<8400, 8432>>, <<11388, 11389>>,
     <<11503, 11505>>, <<11631, 11631>>, <<11647, 11647>>, <<11744, 11775>>, <<11823, 11823>>, <<12293, 12293>>,
     <<12330, 12333>>, <<12337, 12341>>, <<12347, 12347>>, <<12441, 12446>>, <<12540, 12542>>, <<40981, 40981>>,
     <<42232, 42237>>, <<42508, 42508>>, <<42607, 42610>>, <<42612, 42621>>, <<42623, 42623>>, <<42652, 42655>>,
     <<42736, 42737>>, <<42752, 42785>>, <<42864, 42864>>, <<42888, 42890>>, <<42994, 42996>>, <<43000, 43001>>,
     <<43010, 43010>>, <<43014, 43014>>, <<43019, 43019>>, <<43045, 43046>>, <<43052, 43052>>, <<43204, 43205>>,
     <<43232, 43249>>, <<43263, 43263>>, <<43302, 43309>>, <<43335, 43345>>, <<43392, 43394>>, <<43443, 43443>>,
     <<43446, 43449>>, <<43452, 43453>>, <<43471, 43471>>, <<43493, 43494>>, <<43561, 43566>>, <<43569, 43570>>,
     <<43573, 43574>>, <<43587, 43587>>, <<43596, 43596>>, <<43632, 43632>>, <<43644, 43644>>, <<43696, 43696>>,
     <<43698, 43700>>, <<43703, 43704>>, <<43710, 43711>>, <<43713, 43713>>, <<43741, 43741>>, <<43756, 43757>>,
     <<43763, 43764>>, <<43766, 43766>>, <<43867, 43871>>, <<43881, 43883>>, <<44005, 44005>>, <<44008, 44008>>,
     <<44013, 44013>>, <<64286, 64286>>, <<64434, 64450>>, <<65024, 65039>>, <<65043, 65043>>, <<65056, 65071>>,
     <<65106, 65106>>, <<65109, 65109>>, <<65279, 65279>>, <<65287, 65287>>, <<65294, 65294>>, <<65306, 65306>>,
     <<65342, 65342>>, <<65344, 65344>>, <<65392, 65392>>, <<65438, 65439>>, <<65507, 65507>>, <<65529, 65531>>,
     <<66045, 66045>>, <<66272, 66272>>, <<66422, 66426>>, <<67456, 67461>>, <<67463, 67504>>, <<67506, 67514>>,
     <<68097, 68099>>, <<68101, 68102>>, <<68108, 68111>>, <<68152, 68154>>, <<68159, 68159>>, <<68325, 68326>>,
     <<68900, 68903>>, <<69291, 69292>>, <<69446, 69456>>, <<69506, 69509>>, <<69633, 69633>>, <<69688, 69702>>,
     <<69744, 69744>>, <<69747, 69748>>, <<69759, 69761>>, <<69811, 69814>>, <<69817, 69818>>, <<69821, 69821>>,
     <<69826, 69826>>, <<69837, 69837>>, <<69888, 69890>>, <<69927, 69931>>, <<69933, 69940>>, <<70003, 70003>>,
     <<70016, 70017>>, <<70070, 70078>>, <<70089, 70092>>, <<70095, 70095>>, <<70191, 70193>>, <<70196, 70196>>,
     <<70198, 70199>>, <<70206, 70206>>, <<70367, 70367>>, <<70371, 70378>>, <<70400, 70401>>, <<70459, 70460>>,
     <<70464, 70464>>, <<70502, 70508>>, <<70512, 70516>>, <<70712, 70719>>, <<70722, 70724>>, <<70726, 70726>>,
     <<70750, 70750>>, <<70835, 70840>>, <<70842, 70842>>, <<70847, 70848>>, <<70850, 70851>>, <<71090, 71093>>,
     <<71100, 71101>>, <<71103, 71104>>, <<71132, 71133>>, <<71219, 71226>>, <<71229, 71229>>, <<71231, 71232>>,
     <<71339, 71339>>, <<71341, 71341>>, <<71344, 71349>>, <<71351, 71351>>, <<71453, 71455>>, <<71458, 71461>>,
     <<71463, 71467>>, <<71727, 71735>>, <<71737, 71738>>, <<71995, 71996>>, <<71998, 71998>>, <<72003, 72003>>,
     <<72148, 72151>>, <<72154, 72155>>, <<72160, 72160>>, <<72193, 72202>>, <<72243, 72248>>, <<72251, 72254>>,
     <<72263, 72263>>, <<72273, 72278>>, <<72281, 72283>>, <<72330, 72342>>, <<72344, 72345>>, <<72752, 72758>>,
     <<72760, 72765>>, <<72767, 72767>>, <<72850, 72871>>, <<72874, 72880>>, <<72882, 72883>>, <<72885, 72886>>,
     <<73009, 73014>>, <<73018, 73018>>, <<73020, 73021>>, <<73023, 73029>>, <<73031, 73031>>, <<73104, 73105>>,
     <<73109, 73109>>, <<73111, 73111>>, <<73459, 73460>>, <<78896, 78904>>, <<92912, 92916>>, <<92976, 92982>>,
     <<92992, 92995>>, <<94031, 94031>>, <<94095, 94111>>, <<94176, 94177>>, <<94179, 94180>>, <<110576, 110579>>,
     <<110581, 110587>>, <<110589, 110590>>, <<113821, 113822>>, <<113824, 113827>>, <<118528, 118573>>, <<118576, 118598>>,
     <<119143, 119145>>, <<119155, 119170>>, <<119173, 119179>>, <<119210, 119213>>, <<119362, 119364>>, <<121344, 121398>>,
     <<121403, 121452>>, <<121461, 121461>>, <<121476, 121476>>, <<121499, 121503>>, <<121505, 121519>>, <<122880, 122886>>,
     <<122888, 122904>>, <<122907, 122913>>, <<122915, 122916>>, <<122918, 122922>>, <<123184, 123197>>, <<123566, 123566>>,
     <<123628, 123631>>, <<125136, 125142>>, <<125252, 125259>>, <<127995, 127999>>, <<917505, 917505>>, <<917536, 917631>>,
     <<917760, 917999>> >>

\* str.isspace for one character; also \s of re
IsSpace(c) == InRanges(c, WhiteSpace)

\* the whitespace int() removes: str.isspace without U+001C..U+001F
IsIntSpace(c) == IsSpace(c) /\ ~(28 <= c /\ c <= 31)

IsDecimal(c) ==
  IF c < 128 THEN 48 <= c /\ c <= 57
  ELSE \E i \in 1..Len(DecimalZeros) :
         DecimalZeros[i] <= c /\ c <= DecimalZeros[i] + 9

DecimalValue(c) ==
  c - DecimalZeros[CHOOSE i \in 1..Len(DecimalZeros) :
                     DecimalZeros[i] <= c /\ c <= DecimalZeros[i] + 9]

RECURSIVE LStrip(_)
LStrip(s) == IF s # <<>> /\ IsSpace(Head(s)) THEN LStrip(Tail(s)) ELSE s

RECURSIVE RStrip(_)
RStrip(s) ==
  IF s # <<>> /\ IsSpace(s[Len(s)]) THEN RStrip(SubSeq(s, 1, Len(s) - 1)) ELSE s

\* str.strip()
Strip(s) == RStrip(LStrip(s))

\* the lowercase mapping of one character: one character, two for U+0130
LowerChar(c) ==
  IF c < 128 THEN (IF 65 <= c /\ c <= 90 THEN <<c + 32>> ELSE <<c>>)
  ELSE IF c = 304 THEN <<105, 775>>
  ELSE IF \E i \in 1..Len(LowerRuns) :
            /\ LowerRuns[i][1] <= c
            /\ c <= LowerRuns[i][2]
            /\ (c - LowerRuns[i][1]) % LowerRuns[i][3] = 0
       THEN LET i == CHOOSE i \in 1..Len(LowerRuns) :
                       /\ LowerRuns[i][1] <= c
                       /\ c <= LowerRuns[i][2]
                       /\ (c - LowerRuns[i][1]) % LowerRuns[i][3] = 0
            IN  <<c + LowerRuns[i][4]>>
  ELSE <<c>>

IsCaseIgnorable(c) == InRanges(c, CaseIgnorableRanges)

\* a capital sigma (U+03A3) at i is final: a cased character comes before
\* it and none after it, case-ignorable characters skipped
FinalSigma(s, i) ==
  LET before == {j \in 1..(i - 1) : ~IsCaseIgnorable(s[j])}
      after  == {j \in (i + 1)..Len(s) : ~IsCaseIgnorable(s[j])}
      prev   == CHOOSE j \in before : \A k \in before : k <= j
      next   == CHOOSE j \in after : \A k \in after : j <= k
  IN  /\ before # {}
      /\ InRanges(s[prev], CasedRanges)
      /\ after = {} \/ ~InRanges(s[next], CasedRanges)

RECURSIVE LowerFrom(_, _)
LowerFrom(s, i) ==
  IF i > Len(s) THEN <<>>
  ELSE (IF s[i] = 931 /\ FinalSigma(s, i) THEN <<962>> ELSE LowerChar(s[i]))
       \o LowerFrom(s, i + 1)

\* str.lower()
Lower(s) == LowerFrom(s, 1)

\* str.isdigit()
isdigit(s) ==
  /\ Len(s) > 0
  /\ \A i \in 1..Len(s) :
       IF s[i] < 128 THEN 48 <= s[i] /\ s[i] <= 57
       ELSE InRanges(s[i], DigitRanges)

(* ------------------------------ int ------------------------------------ *)
\* a Python int has no bound: it is a sign and the decimal digits of its
\* magnitude, most significant first, <<>> for zero
RECURSIVE DigitsOf(_)
DigitsOf(m) == IF m = 0 THEN <<>> ELSE Append(DigitsOf(m \div 10), m % 10)

FromInt(n) == [neg |-> n < 0, mag |-> DigitsOf(IF n < 0 THEN 0 - n ELSE n)]

\* a <= b for magnitudes
MagLeq(a, b) ==
  \/ Len(a) < Len(b)
  \/ /\ Len(a) = Len(b)
     /\ \/ a = b
        \/ \E i \in 1..Len(a) :
             /\ a[i] < b[i]
             /\ \A j \in 1..(i - 1) : a[j] = b[j]

\* a <= b for ints
IntLeq(a, b) ==
  IF a.neg /\ b.neg THEN MagLeq(b.mag, a.mag)
  ELSE IF a.neg THEN TRUE
  ELSE IF b.neg THEN FALSE
  ELSE MagLeq(a.mag, b.mag)

RECURSIVE StripZeros(_)
StripZeros(d) == IF d # <<>> /\ Head(d) = 0 THEN StripZeros(Tail(d)) ELSE d

\* sys.int_info.default_max_str_digits: int() raises ValueError on more
MaxStrDigits == 4300

RECURSIVE LStripInt(_)
LStripInt(s) ==
  IF s # <<>> /\ IsIntSpace(Head(s)) THEN LStripInt(Tail(s)) ELSE s

RECURSIVE RStripInt(_)
RStripInt(s) ==
  IF s # <<>> /\ IsIntSpace(s[Len(s)])
  THEN RStripInt(SubSeq(s, 1, Len(s) - 1)) ELSE s

\* the digit scan of int(str): decimal digits with single underscores
\* between them; ok = FALSE when the text is not a literal
RECURSIVE ScanDigits(_, _, _)
ScanDigits(s, acc, prevDigit) ==
  IF s = <<>> THEN [ok |-> prevDigit, digits |-> acc]
  ELSE IF IsDecimal(Head(s))
       THEN ScanDigits(Tail(s), Append(acc, DecimalValue(Head(s))), TRUE)
  ELSE IF Head(s) = 95 /\ prevDigit
       THEN ScanDigits(Tail(s), acc, FALSE)
  ELSE [ok |-> FALSE, digits |-> acc]

\* int(str): surrounding whitespace, one optional sign (+ is 43, - is 45),
\* the digits; ok = FALSE stands for ValueError
int(s) ==
  LET t    == RStripInt(LStripInt(s))
      body == IF t # <<>> /\ Head(t) \in {43, 45} THEN Tail(t) ELSE t
      scan == ScanDigits(body, <<>>, FALSE)
      mag  == StripZeros(scan.digits)
  IN  IF ~scan.ok \/ Len(scan.digits) > MaxStrDigits
      THEN [ok |-> FALSE, val |-> FromInt(0)]
      ELSE [ok |-> TRUE,
            val |-> [neg |-> t[1] = 45 /\ mag # <<>>, mag |-> mag]]

IsPrefix(p, s) == Len(p) <= Len(s) /\ SubSeq(s, 1, Len(p)) = p

(* ---------------------------- validators ------------------------------- *)
validate_port_lo(port) ==
  LET port_num == int(port)
  IN  IF port_num.ok
      THEN IntLeq(FromInt(0), port_num.val) /\ IntLeq(port_num.val, FromInt(65535))
      ELSE FALSE

validate_port(port) ==
  LET port_num == int(port)
  IN  IF port_num.ok
      THEN IntLeq(FromInt(1), port_num.val) /\ IntLeq(port_num.val, FromInt(65535))
      ELSE FALSE

\* re.match(r'^https?://[^\s]+$', url); $ matches at the end and before a
\* newline (10) that ends the string
validate_url(url) ==
  LET http  == <<104, 116, 116, 112, 58, 47, 47>>
      https == <<104, 116, 116, 112, 115, 58, 47, 47>>
      rest  == IF IsPrefix(http, url) THEN SubSeq(url, 8, Len(url))
               ELSE IF IsPrefix(https, url) THEN SubSeq(url, 9, Len(url))
               ELSE <<>>
      body  == IF Len(rest) > 1 /\ rest[Len(rest)] = 10
               THEN SubSeq(rest, 1, Len(rest) - 1) ELSE rest
  IN  /\ Len(body) > 0
      /\ \A i \in 1..Len(body) : ~IsSpace(body[i])

\* validator=lambda x: len(x) >= 32
jwt_secret_validator(x) == Len(x) >= 32

\* validator=lambda x: x in ['development', 'production', 'test']
node_env_validator(x) ==
  x \in { <<100, 101, 118, 101, 108, 111, 112, 109, 101, 110, 116>>,
          <<112, 114, 111, 100, 117, 99, 116, 105, 111, 110>>,
          <<116, 101, 115, 116>> }

\* validator=lambda x: x.isdigit() and 10 <= int(x) <= 20
\* ("ValueError" when int(x) raises: the lambda does not catch it)
bcrypt_validator(x) ==
  IF ~isdigit(x) THEN "reject"
  ELSE IF ~int(x).ok THEN "ValueError"
  ELSE IF IntLeq(FromInt(10), int(x).val) /\ IntLeq(int(x).val, FromInt(20))
       THEN "accept"
  ELSE "reject"

\* validator=lambda x: x.isdigit()
rate_validator(x) == isdigit(x)

Verdict(b) == IF b THEN "accept" ELSE "reject"

\* the validator argument of each get_input call of main(); "accept" when
\* the call passes none
Validator(f, x) ==
  CASE f = "JWT_SECRET"              -> Verdict(jwt_secret_validator(x))
    [] f = "NODE_ENV"                -> Verdict(node_env_validator(x))
    [] f = "PORT"                    -> Verdict(validate_port(x))
    [] f = "FRONTEND_URL"            -> Verdict(validate_url(x))
    [] f = "BCRYPT_SALT_ROUNDS"      -> bcrypt_validator(x)
    [] f = "RATE_LIMIT_WINDOW_MS"    -> Verdict(rate_validator(x))
    [] f = "RATE_LIMIT_MAX_REQUESTS" -> Verdict(rate_validator(x))
    [] f = "AUTH_RATE_LIMIT_MAX"     -> Verdict(rate_validator(x))
    [] f = "DYNAMODB_ENDPOINT"       -> Verdict(validate_url(x))
    [] OTHER                         -> "accept"

(* ------------------------- prompts of main() --------------------------- *)
\* the get_input calls of main(), in program order
Fields ==
  << "JWT_SECRET", "JWT_EXPIRES_IN", "JWT_REFRESH_EXPIRES_IN", "JWT_ISSUER",
     "JWT_AUDIENCE", "AWS_ACCESS_KEY_ID", "AWS_SECRET_ACCESS_KEY",
     "AWS_REGION", "NODE_ENV", "PORT", "FRONTEND_URL", "BCRYPT_SALT_ROUNDS",
     "RATE_LIMIT_WINDOW_MS", "RATE_LIMIT_MAX_REQUESTS", "AUTH_RATE_LIMIT_MAX",
     "ALLOWED_ORIGINS", "DYNAMODB_ENDPOINT" >>

FieldSet == {Fields[i] : i \in 1..Len(Fields)}

IndexOf(f) == CHOOSE i \in 1..Len(Fields) : Fields[i] = f

\* where main() continues after the get_input call for field f
After(f) ==
  IF f = "ALLOWED_ORIGINS" THEN "useLocal"
  ELSE IF f = "DYNAMODB_ENDPOINT" THEN "write"
  ELSE Fields[IndexOf(f) + 1]

(* ------------------------------ texts ---------------------------------- *)
\* the key of each field as written before the = sign
KeyChars ==
  [
    \* "JWT_SECRET"
    JWT_SECRET |-> <<74, 87, 84, 95, 83, 69, 67, 82, 69, 84>>,
    \* "JWT_EXPIRES_IN"
    JWT_EXPIRES_IN |-> <<74, 87, 84, 95, 69, 88, 80, 73, 82, 69, 83, 95, 73, 78>>,
    \* "JWT_REFRESH_EXPIRES_IN"
    JWT_REFRESH_EXPIRES_IN |-> <<74, 87, 84, 95, 82, 69, 70, 82, 69, 83, 72, 95, 69, 88, 80, 73, 82, 69, 83, 95, 73, 78>>,
    \* "JWT_ISSUER"
    JWT_ISSUER |-> <<74, 87, 84, 95, 73, 83, 83, 85, 69, 82>>,
    \* "JWT_AUDIENCE"
    JWT_AUDIENCE |-> <<74, 87, 84, 95, 65, 85, 68, 73, 69, 78, 67, 69>>,
    \* "AWS_ACCESS_KEY_ID"
    AWS_ACCESS_KEY_ID |-> <<65, 87, 83, 95, 65, 67, 67, 69, 83, 83, 95, 75, 69, 89, 95, 73, 68>>,
    \* "AWS_SECRET_ACCESS_KEY"
    AWS_SECRET_ACCESS_KEY |-> <<65, 87, 83, 95, 83, 69, 67, 82, 69, 84, 95, 65, 67, 67, 69, 83, 83, 95, 75, 69, 89>>,
    \* "AWS_REGION"
    AWS_REGION |-> <<65, 87, 83, 95, 82, 69, 71, 73, 79, 78>>,
    \* "NODE_ENV"
    NODE_ENV |-> <<78, 79, 68, 69, 95, 69, 78, 86>>,
    \* "PORT"
    PORT |-> <<80, 79, 82, 84>>,
    \* "FRONTEND_URL"
    FRONTEND_URL |-> <<70, 82, 79, 78, 84, 69, 78, 68, 95, 85, 82, 76>>,
    \* "BCRYPT_SALT_ROUNDS"
    BCRYPT_SALT_ROUNDS |-> <<66, 67, 82, 89, 80, 84, 95, 83, 65, 76, 84, 95, 82, 79, 85, 78, 68, 83>>,
    \* "RATE_LIMIT_WINDOW_MS"
    RATE_LIMIT_WINDOW_MS |-> <<82, 65, 84, 69, 95, 76, 73, 77, 73, 84, 95, 87, 73, 78, 68, 79, 87, 95, 77, 83>>,
    \* "RATE_LIMIT_MAX_REQUESTS"
    RATE_LIMIT_MAX_REQUESTS |-> <<82, 65, 84, 69, 95, 76, 73, 77, 73, 84, 95, 77, 65, 88, 95, 82, 69, 81, 85, 69, 83, 84, 83>>,
    \* "AUTH_RATE_LIMIT_MAX"
    AUTH_RATE_LIMIT_MAX |-> <<65, 85, 84, 72, 95, 82, 65, 84, 69, 95, 76, 73, 77, 73, 84, 95, 77, 65, 88>>,
    \* "ALLOWED_ORIGINS"
    ALLOWED_ORIGINS |-> <<65, 76, 76, 79, 87, 69, 68, 95, 79, 82, 73, 71, 73, 78, 83>>,
    \* "DYNAMODB_ENDPOINT"
    DYNAMODB_ENDPOINT |-> <<68, 89, 78, 65, 77, 79, 68, 66, 95, 69, 78, 68, 80, 79, 73, 78, 84>> ]

Default_swapped ==
  [
    \* ""
    JWT_SECRET |-> <<>>,
    \* "7d"
    JWT_EXPIRES_IN |-> <<55, 100>>,
    \* "30m"
    JWT_REFRESH_EXPIRES_IN |-> <<51, 48, 109>>,
    \* "class-registration-app"
    JWT_ISSUER |-> <<99, 108, 97, 115, 115, 45, 114, 101, 103, 105, 115, 116, 114, 97, 116, 105, 111, 110, 45, 97, 112, 112>>,
    \* "class-registration-users"
    JWT_AUDIENCE |-> <<99, 108, 97, 115, 115, 45, 114, 101, 103, 105, 115, 116, 114, 97, 116, 105, 111, 110, 45, 117, 115, 101, 114, 115>>,
    \* ""
    AWS_ACCESS_KEY_ID |-> <<>>,
    \* ""
    AWS_SECRET_ACCESS_KEY |-> <<>>,
    \* "us-east-1"
    AWS_REGION |-> <<117, 115, 45, 101, 97, 115, 116, 45, 49>>,
    \* "development"
    NODE_ENV |-> <<100, 101, 118, 101, 108, 111, 112, 109, 101, 110, 116>>,
    \* "3000"
    PORT |-> <<51, 48, 48, 48>>,
    \* "http://localhost:3001"
    FRONTEND_URL |-> <<104, 116, 116, 112, 58, 47, 47, 108, 111, 99, 97, 108, 104, 111, 115, 116, 58, 51, 48, 48, 49>>,
    \* "14"
    BCRYPT_SALT_ROUNDS |-> <<49, 52>>,
    \* "900000"
    RATE_LIMIT_WINDOW_MS |-> <<57, 48, 48, 48, 48, 48>>,
    \* "100"
    RATE_LIMIT_MAX_REQUESTS |-> <<49, 48, 48>>,
    \* "5"
    AUTH_RATE_LIMIT_MAX |-> <<53>>,
    \* "http://localhost:3001,http://localhost:3000"
    ALLOWED_ORIGINS |-> <<104, 116, 116, 112, 58, 47, 47, 108, 111, 99, 97, 108, 104, 111, 115, 116, 58, 51, 48, 48, 49, 44, 104, 116, 116, 112, 58, 47, 47, 108, 111, 99, 97, 108, 104, 111, 115, 116, 58, 51, 48, 48, 48>>,
    \* "http://localhost:8000"
    DYNAMODB_ENDPOINT |-> <<104, 116, 116, 112, 58, 47, 47, 108, 111, 99, 97, 108, 104, 111, 115, 116, 58, 56, 48, 48, 48>> ]

\* the default argument of each get_input call; none is the empty string
Default ==
  [
    \* ""
    JWT_SECRET |-> <<>>,
    \* "30m"
    JWT_EXPIRES_IN |-> <<51, 48, 109>>,
    \* "7d"
    JWT_REFRESH_EXPIRES_IN |-> <<55, 100>>,
    \* "class-registration-app"
    JWT_ISSUER |-> <<99, 108, 97, 115, 115, 45, 114, 101, 103, 105, 115, 116, 114, 97, 116, 105, 111, 110, 45, 97, 112, 112>>,
    \* "class-registration-users"
    JWT_AUDIENCE |-> <<99, 108, 97, 115, 115, 45, 114, 101, 103, 105, 115, 116, 114, 97, 116, 105, 111, 110, 45, 117, 115, 101, 114, 115>>,
    \* ""
    AWS_ACCESS_KEY_ID |-> <<>>,
    \* ""
    AWS_SECRET_ACCESS_KEY |-> <<>>,
    \* "us-east-1"
    AWS_REGION |-> <<117, 115, 45, 101, 97, 115, 116, 45, 49>>,
    \* "development"
    NODE_ENV |-> <<100, 101, 118, 101, 108, 111, 112, 109, 101, 110, 116>>,
    \* "3000"
    PORT |-> <<51, 48, 48, 48>>,
    \* "http://localhost:3001"
    FRONTEND_URL |-> <<104, 116, 116, 112, 58, 47, 47, 108, 111, 99, 97, 108, 104, 111, 115, 116, 58, 51, 48, 48, 49>>,
    \* "14"
    BCRYPT_SALT_ROUNDS |-> <<49, 52>>,
    \* "900000"
    RATE_LIMIT_WINDOW_MS |-> <<57, 48, 48, 48, 48, 48>>,
    \* "100"
    RATE_LIMIT_MAX_REQUESTS |-> <<49, 48, 48>>,
    \* "5"
    AUTH_RATE_LIMIT_MAX |-> <<53>>,
    \* "http://localhost:3001,http://localhost:3000"
    ALLOWED_ORIGINS |-> <<104, 116, 116, 112, 58, 47, 47, 108, 111, 99, 97, 108, 104, 111, 115, 116, 58, 51, 48, 48, 49, 44, 104, 116, 116, 112, 58, 47, 47, 108, 111, 99, 97, 108, 104, 111, 115, 116, 58, 51, 48, 48, 48>>,
    \* "http://localhost:8000"
    DYNAMODB_ENDPOINT |-> <<104, 116, 116, 112, 58, 47, 47, 108, 111, 99, 97, 108, 104, 111, 115, 116, 58, 56, 48, 48, 48>> ]

\* "# JWT Configuration"
HdrJWT == <<35, 32, 74, 87, 84, 32, 67, 111, 110, 102, 105, 103, 117, 114, 97, 116, 105, 111, 110>>

\* "# AWS Configuration"
HdrAWS == <<35, 32, 65, 87, 83, 32, 67, 111, 110, 102, 105, 103, 117, 114, 97, 116, 105, 111, 110>>

\* "# Application Configuration"
HdrApp == <<35, 32, 65, 112, 112, 108, 105, 99, 97, 116, 105, 111, 110, 32, 67, 111, 110, 102, 105, 103, 117, 114, 97, 116, 105, 111, 110>>

\* "# Security Configuration"
HdrSecurity == <<35, 32, 83, 101, 99, 117, 114, 105, 116, 121, 32, 67, 111, 110, 102, 105, 103, 117, 114, 97, 116, 105, 111, 110>>

\* "# CORS Configuration"
HdrCORS == <<35, 32, 67, 79, 82, 83, 32, 67, 111, 110, 102, 105, 103, 117, 114, 97, 116, 105, 111, 110>>

\* "# Database Configuration"
HdrDatabase == <<35, 32, 68, 97, 116, 97, 98, 97, 115, 101, 32, 67, 111, 110, 102, 105, 103, 117, 114, 97, 116, 105, 111, 110>>

\* "0450f33e4c4816ef9e08ee8ee1e900c72afad9185a4f4c7ccb4b0de6d8a475a9"
Secret1 == <<48, 52, 53, 48, 102, 51, 51, 101, 52, 99, 52, 56, 49, 54, 101, 102, 57, 101, 48, 56, 101, 101, 56, 101, 101, 49, 101, 57, 48, 48, 99, 55, 50, 97, 102, 97, 100, 57, 49, 56, 53, 97, 52, 102, 52, 99, 55, 99, 99, 98, 52, 98, 48, 100, 101, 54, 100, 56, 97, 52, 55, 53, 97, 57>>

\* "ffffffffffffffffffffffffffffffffffffffffffffffffffffffffffffffff"
Secret2 == <<102, 102, 102, 102, 102, 102, 102, 102, 102, 102, 102, 102, 102, 102, 102, 102, 102, 102, 102, 102, 102, 102, 102, 102, 102, 102, 102, 102, 102, 102, 102, 102, 102, 102, 102, 102, 102, 102, 102, 102, 102, 102, 102, 102, 102, 102, 102, 102, 102, 102, 102, 102, 102, 102, 102, 102, 102, 102, 102, 102, 102, 102, 102, 102>>

\* secrets.token_hex(32): 64 hexadecimal characters, chosen at random
GeneratedSecrets == {Secret1, Secret2}

\* the lines the operator may type at each get_input prompt
Responses ==
  [
    JWT_SECRET |->
      { <<>>,  \* ""
        <<115, 101, 99, 114, 101, 116>>,  \* "secret"
        <<97, 98, 99, 100, 101, 102, 103, 104, 105, 106, 107, 108, 109, 110, 111, 112, 113, 114, 115, 116, 117, 118, 119, 120, 121, 122, 48, 49, 50, 51, 52>>,  \* "abcdefghijklmnopqrstuvwxyz01234"
        <<32, 97, 98, 99, 100, 101, 102, 103, 104, 105, 106, 107, 108, 109, 110, 111, 112, 113, 114, 115, 116, 117, 118, 119, 120, 121, 122, 48, 49, 50, 51, 52, 53, 32>> },  \* " abcdefghijklmnopqrstuvwxyz012345 "
    JWT_EXPIRES_IN |->
      { <<>>,  \* ""
        <<49, 104>>,  \* "1h"
        <<160>> },  \* "\xa0"
    JWT_REFRESH_EXPIRES_IN |->
      { <<>>,  \* ""
        <<32, 51, 48, 100>> },  \* " 30d"
    JWT_ISSUER |->
      { <<>> },  \* ""
    JWT_AUDIENCE |->
      { <<>> },  \* ""
    AWS_ACCESS_KEY_ID |->
      { <<>>,  \* ""
        <<11>>,  \* "\x0b"
        <<65, 75, 73, 65, 69, 88, 65, 77, 80, 76, 69>> },  \* "AKIAEXAMPLE"
    AWS_SECRET_ACCESS_KEY |->
      { <<>>,  \* ""
        <<119, 74, 97, 108, 114, 47, 75, 55, 77, 68, 69, 78, 71>> },  \* "wJalr/K7MDENG"
    AWS_REGION |->
      { <<>> },  \* ""
    NODE_ENV |->
      { <<>>,  \* ""
        <<112, 114, 111, 100, 117, 99, 116, 105, 111, 110>>,  \* "production"
        <<115, 116, 97, 103, 105, 110, 103>>,  \* "staging"
        <<80, 114, 111, 100, 117, 99, 116, 105, 111, 110>> },  \* "Production"
    PORT |->
      { <<>>,  \* ""
        <<56, 48, 56, 48>>,  \* "8080"
        <<57, 57, 57, 57, 57>>,  \* "99999"
        <<54, 53, 53, 51, 54>>,  \* "65536"
        <<56, 95, 48>>,  \* "8_0"
        <<12, 56, 48, 56, 48>>,  \* "\x0c8080"
        <<1640, 1632>>,  \* "\u0668\u0660"
        <<57, 57, 57, 57, 57, 57, 57, 57, 57, 57, 57>> },  \* "99999999999"
    FRONTEND_URL |->
      { <<>>,  \* ""
        <<104, 116, 116, 112, 115, 58, 47, 47, 97, 112, 112, 46, 101, 120, 97, 109, 112, 108, 101, 46, 99, 111, 109>>,  \* "https://app.example.com"
        <<102, 116, 112, 58, 47, 47, 102, 105, 108, 101, 115>>,  \* "ftp://files"
        <<104, 116, 116, 112, 58, 47, 47>>,  \* "http://"
        <<104, 116, 116, 112, 58, 47, 47, 97, 32, 98>>,  \* "http://a b"
        <<104, 116, 116, 112, 58, 47, 47, 97, 11, 98>> },  \* "http://a\x0bb"
    BCRYPT_SALT_ROUNDS |->
      { <<>>,  \* ""
        <<49, 48>>,  \* "10"
        <<50, 48>>,  \* "20"
        <<57>>,  \* "9"
        <<50, 49>>,  \* "21"
        <<43, 49, 50>>,  \* "+12"
        <<178>>,  \* "\xb2"
        <<179>>,  \* "\xb3"
        <<1633, 1636>>,  \* "\u0661\u0664"
        <<49, 50, 51, 52, 53, 54, 55, 56, 57, 48, 49>> },  \* "12345678901"
    RATE_LIMIT_WINDOW_MS |->
      { <<>>,  \* ""
        <<48>>,  \* "0"
        <<45, 49>>,  \* "-1"
        <<49, 46, 53>>,  \* "1.5"
        <<178>>,  \* "\xb2"
        <<1637>> },  \* "\u0665"
    RATE_LIMIT_MAX_REQUESTS |->
      { <<>>,  \* ""
        <<53, 48>>,  \* "50"
        <<49, 101, 51>> },  \* "1e3"
    AUTH_RATE_LIMIT_MAX |->
      { <<>>,  \* ""
        <<51>>,  \* "3"
        <<102, 105, 118, 101>> },  \* "five"
    ALLOWED_ORIGINS |->
      { <<>> },  \* ""
    DYNAMODB_ENDPOINT |->
      { <<>>,  \* ""
        <<104, 116, 116, 112, 58, 47, 47, 100, 121, 110, 97, 109, 111, 58, 56, 48, 48, 48>>,  \* "http://dynamo:8000"
        <<108, 111, 99, 97, 108, 104, 111, 115, 116, 58, 56, 48, 48, 48>> }  \* "localhost:8000"
  ]

\* the lines the operator may type at a get_yes_no prompt
YesNoResponses ==
  { <<>>,  \* ""
    <<121>>,  \* "y"
    <<32, 89, 69, 83, 32>>,  \* " YES "
    <<110>>,  \* "n"
    <<78, 111, 9>>,  \* "No\t"
    <<109, 97, 121, 98, 101>>,  \* "maybe"
    <<89, 101, 383>>,  \* "Ye\u017f"
    <<11, 121>>,  \* "\x0by"
    <<110, 160>> }  \* "n\xa0"

\* "y", "yes"
Yes == {<<121>>, <<121, 101, 115>>}

\* "n", "no"
No == {<<110>>, <<110, 111>>}

NoFile == <<-1>>

\* content of a .env file left by an earlier run: "JWT_SECRET=old\n"
OldEnv == <<74, 87, 84, 95, 83, 69, 67, 82, 69, 84, 61, 111, 108, 100, 10>>

(* ------------------------- get_input, get_yes_no ----------------------- *)
get_input_nodefault(f, line) ==
  LET user_input == Strip(line)
  IN  [value |-> user_input, verdict |-> Validator(f, user_input)]

\* one iteration of the loop of get_input on the line read by input()
get_input(f, line) ==
  LET stripped   == Strip(line)
      user_input == IF Default[f] # <<>> /\ stripped = <<>>
                    THEN Default[f] ELSE stripped
  IN  [value |-> user_input, verdict |-> Validator(f, user_input)]

get_yes_no_nodefault(line, default) ==
  LET response == Lower(Strip(line))
  IN  IF response \in Yes \/ response = <<>> THEN "True"
      ELSE IF response \in No THEN "False"
      ELSE "retry"

\* one iteration of the loop of get_yes_no on the line read by input()
get_yes_no(line, default) ==
  LET stripped == Lower(Strip(line))
      response == IF stripped = <<>> THEN default ELSE stripped
  IN  IF response \in Yes THEN "True"
      ELSE IF response \in No THEN "False"
      ELSE "retry"

\* config[k] = v
Assign(c, k, v) == [x \in DOMAIN c \cup {k} |-> IF x = k THEN v ELSE c[x]]

\* the responses read so far by the call in progress at prompt p
CurHist(p) == IF call = p THEN hist ELSE <<>>

CurReprompts(p) == IF call = p THEN reprompts ELSE 0

\* input(prompt): the prompt is displayed and a line is read
Input(p, line) ==
  /\ line = <<>> \/ typed < MaxTyped
  /\ typed' = IF line = <<>> THEN typed ELSE typed + 1
  /\ call' = p
  /\ hist' = Append(CurHist(p), line)
  /\ shown' = shown \cup {p}

\* input(prompt) at the end of standard input: the prompt is displayed and
\* EOFError is raised, which nothing in the program catches
EndOfInput(p) ==
  /\ call' = p
  /\ hist' = CurHist(p)
  /\ reprompts' = CurReprompts(p)
  /\ shown' = shown \cup {p}
  /\ exc' = "EOFError"
  /\ pc' = "raised"
  /\ UNCHANGED <<typed, printed, config, yn, ret>>

\* the loop continues: the message is printed and the prompt shown again
Retry(p, msg) ==
  /\ CurReprompts(p) < MaxReprompts
  /\ reprompts' = CurReprompts(p) + 1
  /\ printed' = printed \cup {msg}
  /\ pc' = pc

\* f"KEY={config['KEY']}\n" (= is 61)
Line(k, c) == KeyChars[k] \o <<61>> \o c[k] \o <<10>>

RECURSIVE Concat(_)
Concat(ss) == IF ss = <<>> THEN <<>> ELSE Head(ss) \o Concat(Tail(ss))

\* the text of the f.write calls before the database section
RenderSections(c) ==
  Concat(<< HdrJWT \o <<10>>, Line("JWT_SECRET", c), Line("JWT_EXPIRES_IN", c),
            Line("JWT_REFRESH_EXPIRES_IN", c), Line("JWT_ISSUER", c),
            Line("JWT_AUDIENCE", c), <<10>>,
            HdrAWS \o <<10>>, Line("AWS_ACCESS_KEY_ID", c),
            Line("AWS_SECRET_ACCESS_KEY", c), Line("AWS_REGION", c), <<10>>,
            HdrApp \o <<10>>, Line("NODE_ENV", c), Line("PORT", c),
            Line("FRONTEND_URL", c), <<10>>,
            HdrSecurity \o <<10>>, Line("BCRYPT_SALT_ROUNDS", c),
            Line("RATE_LIMIT_WINDOW_MS", c), Line("RATE_LIMIT_MAX_REQUESTS", c),
            Line("AUTH_RATE_LIMIT_MAX", c), <<10>>,
            HdrCORS \o <<10>>, Line("ALLOWED_ORIGINS", c), <<10>> >>)

RenderEnv_always(c) ==
  RenderSections(c)
  \o HdrDatabase \o <<10>> \o Line("DYNAMODB_ENDPOINT", c) \o <<10>>

\* the text the with-block of main() writes
RenderEnv(c) ==
  RenderSections(c)
  \o (IF c["DYNAMODB_ENDPOINT"] # <<>>
      THEN HdrDatabase \o <<10>> \o Line("DYNAMODB_ENDPOINT", c) \o <<10>>
      ELSE <<>>)

ExitStatus_none(r) == IF r = <<>> THEN 1 ELSE r[1]

\* exit(main()): None and 0 give status 0, another integer is the status
ExitStatus(r) == IF r = <<>> THEN 0 ELSE r[1]

(* ------------------------------ main() --------------------------------- *)
Init ==
  /\ pc = "start"
  /\ file0 \in {NoFile, OldEnv}
  /\ file = file0
  /\ config = <<>>
  /\ yn = <<>>
  /\ call = "none"
  /\ hist = <<>>
  /\ reprompts = 0
  /\ typed = 0
  /\ shown = {}
  /\ printed = {}
  /\ exc = "none"
  /\ ret = <<>>
  /\ status = -1
  /\ arg = <<>>
  /\ res = <<>>

\* lines 70-73: the banner
Banner ==
  /\ pc = "start"
  /\ printed' = printed \cup {"Banner"}
  /\ pc' = "check"
  /\ UNCHANGED <<file0, file, config, yn, call, hist, reprompts, typed, shown,
                 exc, ret, status, arg, res>>

CheckExisting_always ==
  /\ pc = "check"
  /\ pc' = "overwrite"
  /\ printed' = printed \cup {"Warning"}
  /\ UNCHANGED <<file0, file, config, yn, call, hist, reprompts, typed, shown,
                 exc, ret, status, arg, res>>

\* lines 76-78: env_path.exists() and the warning
CheckExisting ==
  /\ pc = "check"
  /\ IF file # NoFile
     THEN pc' = "overwrite" /\ printed' = printed \cup {"Warning"}
     ELSE pc' = "generate" /\ printed' = printed
  /\ UNCHANGED <<file0, file, config, yn, call, hist, reprompts, typed, shown,
                 exc, ret, status, arg, res>>

\* line 79: get_yes_no("Do you want to overwrite it?", default='n')
AskOverwrite ==
  /\ pc = "overwrite"
  /\ \/ \E line \in YesNoResponses :
          /\ Input("overwrite", line)
          /\ LET r == get_yes_no(line, <<110>>)
             IN  CASE r = "retry" ->
                        /\ Retry("overwrite", "Please enter")
                        /\ UNCHANGED <<yn, ret>>
                   [] r = "False" ->
                        /\ yn' = Assign(yn, "overwrite", FALSE)
                        /\ printed' = printed \cup {"Setup cancelled"}
                        /\ ret' = <<>>
                        /\ pc' = "returned"
                        /\ reprompts' = CurReprompts("overwrite")
                   [] r = "True" ->
                        /\ yn' = Assign(yn, "overwrite", TRUE)
                        /\ pc' = "generate"
                        /\ reprompts' = CurReprompts("overwrite")
                        /\ UNCHANGED <<printed, ret>>
          /\ UNCHANGED <<config, exc>>
     \/ EndOfInput("overwrite")
  /\ UNCHANGED <<file0, file, status, arg, res>>

\* lines 90-92: get_yes_no("Generate a secure JWT secret automatically?")
AskGenerate ==
  /\ pc = "generate"
  /\ \/ \E line \in YesNoResponses :
          /\ Input("generate", line)
          /\ LET r == get_yes_no(line, <<121>>)
             IN  CASE r = "retry" ->
                        /\ Retry("generate", "Please enter")
                        /\ UNCHANGED <<yn, config>>
                   [] r = "True" ->
                        /\ yn' = Assign(yn, "generate", TRUE)
                        /\ \E s \in GeneratedSecrets :
                             config' = Assign(config, "JWT_SECRET", s)
                        /\ printed' = printed \cup {"Generated JWT secret"}
                        /\ pc' = "JWT_EXPIRES_IN"
                        /\ reprompts' = CurReprompts("generate")
                   [] r = "False" ->
                        /\ yn' = Assign(yn, "generate", FALSE)
                        /\ pc' = "JWT_SECRET"
                        /\ reprompts' = CurReprompts("generate")
                        /\ UNCHANGED <<printed, config>>
          /\ UNCHANGED <<ret, exc>>
     \/ EndOfInput("generate")
  /\ UNCHANGED <<file0, file, status, arg, res>>

\* lines 94-209: config[f] = get_input(...), one loop iteration per step
AskField ==
  /\ pc \in FieldSet
  /\ \/ \E line \in Responses[pc] :
          /\ Input(pc, line)
          /\ LET r == get_input(pc, line)
             IN  CASE r.verdict = "reject" ->
                        /\ Retry(pc, "Invalid input")
                        /\ UNCHANGED <<config, exc>>
                   [] r.verdict = "accept" ->
                        /\ config' = Assign(config, pc, r.value)
                        /\ pc' = After(pc)
                        /\ reprompts' = CurReprompts(pc)
                        /\ UNCHANGED <<printed, exc>>
                   [] r.verdict = "ValueError" ->
                        /\ exc' = "ValueError"
                        /\ pc' = "raised"
                        /\ reprompts' = CurReprompts(pc)
                        /\ UNCHANGED <<config, printed>>
          /\ UNCHANGED <<yn, ret>>
     \/ EndOfInput(pc)
  /\ UNCHANGED <<file0, file, status, arg, res>>

\* lines 204-211: get_yes_no("Use local DynamoDB endpoint?", default='n')
AskUseLocal ==
  /\ pc = "useLocal"
  /\ \/ \E line \in YesNoResponses :
          /\ Input("useLocal", line)
          /\ LET r == get_yes_no(line, <<110>>)
             IN  CASE r = "retry" ->
                        /\ Retry("useLocal", "Please enter")
                        /\ UNCHANGED <<yn, config>>
                   [] r = "True" ->
                        /\ yn' = Assign(yn, "useLocal", TRUE)
                        /\ pc' = "DYNAMODB_ENDPOINT"
                        /\ reprompts' = CurReprompts("useLocal")
                        /\ UNCHANGED <<printed, config>>
                   [] r = "False" ->
                        /\ yn' = Assign(yn, "useLocal", FALSE)
                        /\ config' = Assign(config, "DYNAMODB_ENDPOINT", <<>>)
                        /\ pc' = "write"
                        /\ reprompts' = CurReprompts("useLocal")
                        /\ UNCHANGED printed
          /\ UNCHANGED <<ret, exc>>
     \/ EndOfInput("useLocal")
  /\ UNCHANGED <<file0, file, status, arg, res>>

\* lines 215-264: the file is opened for writing and the text written.
\* open() may raise (the file is untouched); a write, the flush or the
\* close may raise after the file was truncated and some leading part of
\* the text, or all of it, has reached the file
WriteEnv ==
  /\ pc = "write"
  /\ \/ /\ file' = RenderEnv(config)
        /\ printed' = printed \cup {"Writing", "created successfully"}
        /\ ret' = <<0>>
     \/ /\ file' = file
        /\ printed' = printed \cup {"Writing", "Error writing"}
        /\ ret' = <<1>>
     \/ /\ \E n \in (0..MaxWritten) \cup {Len(RenderEnv(config))} :
             /\ n <= Len(RenderEnv(config))
             /\ file' = SubSeq(RenderEnv(config), 1, n)
        /\ printed' = printed \cup {"Writing", "Error writing"}
        /\ ret' = <<1>>
  /\ pc' = "returned"
  /\ UNCHANGED <<file0, config, yn, call, hist, reprompts, typed, shown,
                 exc, status, arg, res>>

\* line 268: exit(main()); an exception that leaves main() ends the
\* interpreter with a traceback and status 1
Exit ==
  /\ pc \in {"returned", "raised"}
  /\ IF pc = "returned"
     THEN status' = ExitStatus(ret) /\ printed' = printed
     ELSE status' = 1 /\ printed' = printed \cup {"Traceback"}
  /\ pc' = "exited"
  /\ UNCHANGED <<file0, file, config, yn, call, hist, reprompts, typed, shown,
                 exc, ret, arg, res>>

Next ==
  \/ Banner
  \/ CheckExisting
  \/ AskOverwrite
  \/ AskGenerate
  \/ AskField
  \/ AskUseLocal
  \/ WriteEnv
  \/ Exit

Spec == Init /\ [][Next]_vars

(* --------------------------- validate_port ----------------------------- *)
\* 0 3 5 6, - + _ and a, space, U+000B, U+0666 (ARABIC-INDIC DIGIT SIX)
PortAlphabet == {48, 51, 53, 54, 45, 43, 95, 97, 32, 11, 1638}

\* the strings of length n over PortAlphabet
PortStrings(n) == [1..n -> PortAlphabet]

InitPort ==
  /\ pc = "validate_port"
  /\ \E n \in 0..MaxLen : arg \in PortStrings(n)
  /\ res = <<>>
  /\ file0 = NoFile
  /\ file = NoFile
  /\ config = <<>>
  /\ yn = <<>>
  /\ call = "none"
  /\ hist = <<>>
  /\ reprompts = 0
  /\ typed = 0
  /\ shown = {}
  /\ printed = {}
  /\ exc = "none"
  /\ ret = <<>>
  /\ status = -1

CallValidatePort ==
  /\ pc = "validate_port"
  /\ res' = <<validate_port(arg)>>
  /\ pc' = "validate_port_done"
  /\ UNCHANGED <<arg, file0, file, config, yn, call, hist, reprompts, typed,
                 shown, printed, exc, ret, status>>

NextPort == CallValidatePort

SpecPort == InitPort /\ [][NextPort]_vars

(* ----------------------------- properties ------------------------------ *)

\* the file of a run in which every prompt got an empty line
AllDefaultsLines(secret) ==
  << <<35, 32, 74, 87, 84, 32, 67, 111, 110, 102, 105, 103, 117, 114, 97, 116, 105, 111, 110, 10>>,  \* "# JWT Configuration\n"
     <<74, 87, 84, 95, 83, 69, 67, 82, 69, 84, 61>> \o secret \o <<10>>,  \* "JWT_SECRET=<secret>\n"
     <<74, 87, 84, 95, 69, 88, 80, 73, 82, 69, 83, 95, 73, 78, 61, 51, 48, 109, 10>>,  \* "JWT_EXPIRES_IN=30m\n"
     <<74, 87, 84, 95, 82, 69, 70, 82, 69, 83, 72, 95, 69, 88, 80, 73, 82, 69, 83, 95, 73, 78, 61, 55, 100, 10>>,  \* "JWT_REFRESH_EXPIRES_IN=7d\n"
     <<74, 87, 84, 95, 73, 83, 83, 85, 69, 82, 61, 99, 108, 97, 115, 115, 45, 114, 101, 103, 105, 115, 116, 114, 97, 116, 105, 111, 110, 45, 97, 112, 112, 10>>,  \* "JWT_ISSUER=class-registration-app\n"
     <<74, 87, 84, 95, 65, 85, 68, 73, 69, 78, 67, 69, 61, 99, 108, 97, 115, 115, 45, 114, 101, 103, 105, 115, 116, 114, 97, 116, 105, 111, 110, 45, 117, 115, 101, 114, 115, 10>>,  \* "JWT_AUDIENCE=class-registration-users\n"
     <<10>>,  \* "\n"
     <<35, 32, 65, 87, 83, 32, 67, 111, 110, 102, 105, 103, 117, 114, 97, 116, 105, 111, 110, 10>>,  \* "# AWS Configuration\n"
     <<65, 87, 83, 95, 65, 67, 67, 69, 83, 83, 95, 75, 69, 89, 95, 73, 68, 61, 10>>,  \* "AWS_ACCESS_KEY_ID=\n"
     <<65, 87, 83, 95, 83, 69, 67, 82, 69, 84, 95, 65, 67, 67, 69, 83, 83, 95, 75, 69, 89, 61, 10>>,  \* "AWS_SECRET_ACCESS_KEY=\n"
     <<65, 87, 83, 95, 82, 69, 71, 73, 79, 78, 61, 117, 115, 45, 101, 97, 115, 116, 45, 49, 10>>,  \* "AWS_REGION=us-east-1\n"
     <<10>>,  \* "\n"
     <<35, 32, 65, 112, 112, 108, 105, 99, 97, 116, 105, 111, 110, 32, 67, 111, 110, 102, 105, 103, 117, 114, 97, 116, 105, 111, 110, 10>>,  \* "# Application Configuration\n"
     <<78, 79, 68, 69, 95, 69, 78, 86, 61, 100, 101, 118, 101, 108, 111, 112, 109, 101, 110, 116, 10>>,  \* "NODE_ENV=development\n"
     <<80, 79, 82, 84, 61, 51, 48, 48, 48, 10>>,  \* "PORT=3000\n"
     <<70, 82, 79, 78, 84, 69, 78, 68, 95, 85, 82, 76, 61, 104, 116, 116, 112, 58, 47, 47, 108, 111, 99, 97, 108, 104, 111, 115, 116, 58, 51, 48, 48, 49, 10>>,  \* "FRONTEND_URL=http://localhost:3001\n"
     <<10>>,  \* "\n"
     <<35, 32, 83, 101, 99, 117, 114, 105, 116, 121, 32, 67, 111, 110, 102, 105, 103, 117, 114, 97, 116, 105, 111, 110, 10>>,  \* "# Security Configuration\n"
     <<66, 67, 82, 89, 80, 84, 95, 83, 65, 76, 84, 95, 82, 79, 85, 78, 68, 83, 61, 49, 52, 10>>,  \* "BCRYPT_SALT_ROUNDS=14\n"
     <<82, 65, 84, 69, 95, 76, 73, 77, 73, 84, 95, 87, 73, 78, 68, 79, 87, 95, 77, 83, 61, 57, 48, 48, 48, 48, 48, 10>>,  \* "RATE_LIMIT_WINDOW_MS=900000\n"
     <<82, 65, 84, 69, 95, 76, 73, 77, 73, 84, 95, 77, 65, 88, 95, 82, 69, 81, 85, 69, 83, 84, 83, 61, 49, 48, 48, 10>>,  \* "RATE_LIMIT_MAX_REQUESTS=100\n"
     <<65, 85, 84, 72, 95, 82, 65, 84, 69, 95, 76, 73, 77, 73, 84, 95, 77, 65, 88, 61, 53, 10>>,  \* "AUTH_RATE_LIMIT_MAX=5\n"
     <<10>>,  \* "\n"
     <<35, 32, 67, 79, 82, 83, 32, 67, 111, 110, 102, 105, 103, 117, 114, 97, 116, 105, 111, 110, 10>>,  \* "# CORS Configuration\n"
     <<65, 76, 76, 79, 87, 69, 68, 95, 79, 82, 73, 71, 73, 78, 83, 61, 104, 116, 116, 112, 58, 47, 47, 108, 111, 99, 97, 108, 104, 111, 115, 116, 58, 51, 48, 48, 49, 44, 104, 116, 116, 112, 58, 47, 47, 108, 111, 99, 97, 108, 104, 111, 115, 116, 58, 51, 48, 48, 48, 10>>,  \* "ALLOWED_ORIGINS=http://localhost:3001,http://localhost:3000\n"
     <<10>> >>  \* "\n"

AllDefaultsFile(secret) == Concat(AllDefaultsLines(secret))

\* the KEY=VALUE lines of section 6 with the documented defaults
DocumentedDefaults ==
  << <<74, 87, 84, 95, 83, 69, 67, 82, 69, 84, 61>>,  \* "JWT_SECRET="
     <<74, 87, 84, 95, 69, 88, 80, 73, 82, 69, 83, 95, 73, 78, 61, 51, 48, 109>>,  \* "JWT_EXPIRES_IN=30m"
     <<74, 87, 84, 95, 82, 69, 70, 82, 69, 83, 72, 95, 69, 88, 80, 73, 82, 69, 83, 95, 73, 78, 61, 55, 100>>,  \* "JWT_REFRESH_EXPIRES_IN=7d"
     <<74, 87, 84, 95, 73, 83, 83, 85, 69, 82, 61, 99, 108, 97, 115, 115, 45, 114, 101, 103, 105, 115, 116, 114, 97, 116, 105, 111, 110, 45, 97, 112, 112>>,  \* "JWT_ISSUER=class-registration-app"
     <<74, 87, 84, 95, 65, 85, 68, 73, 69, 78, 67, 69, 61, 99, 108, 97, 115, 115, 45, 114, 101, 103, 105, 115, 116, 114, 97, 116, 105, 111, 110, 45, 117, 115, 101, 114, 115>>,  \* "JWT_AUDIENCE=class-registration-users"
     <<65, 87, 83, 95, 65, 67, 67, 69, 83, 83, 95, 75, 69, 89, 95, 73, 68, 61>>,  \* "AWS_ACCESS_KEY_ID="
     <<65, 87, 83, 95, 83, 69, 67, 82, 69, 84, 95, 65, 67, 67, 69, 83, 83, 95, 75, 69, 89, 61>>,  \* "AWS_SECRET_ACCESS_KEY="
     <<65, 87, 83, 95, 82, 69, 71, 73, 79, 78, 61, 117, 115, 45, 101, 97, 115, 116, 45, 49>>,  \* "AWS_REGION=us-east-1"
     <<78, 79, 68, 69, 95, 69, 78, 86, 61, 100, 101, 118, 101, 108, 111, 112, 109, 101, 110, 116>>,  \* "NODE_ENV=development"
     <<80, 79, 82, 84, 61, 51, 48, 48, 48>>,  \* "PORT=3000"
     <<70, 82, 79, 78, 84, 69, 78, 68, 95, 85, 82, 76, 61, 104, 116, 116, 112, 58, 47, 47, 108, 111, 99, 97, 108, 104, 111, 115, 116, 58, 51, 48, 48, 49>>,  \* "FRONTEND_URL=http://localhost:3001"
     <<66, 67, 82, 89, 80, 84, 95, 83, 65, 76, 84, 95, 82, 79, 85, 78, 68, 83, 61, 49, 52>>,  \* "BCRYPT_SALT_ROUNDS=14"
     <<82, 65, 84, 69, 95, 76, 73, 77, 73, 84, 95, 87, 73, 78, 68, 79, 87, 95, 77, 83, 61, 57, 48, 48, 48, 48, 48>>,  \* "RATE_LIMIT_WINDOW_MS=900000"
     <<82, 65, 84, 69, 95, 76, 73, 77, 73, 84, 95, 77, 65, 88, 95, 82, 69, 81, 85, 69, 83, 84, 83, 61, 49, 48, 48>>,  \* "RATE_LIMIT_MAX_REQUESTS=100"
     <<65, 85, 84, 72, 95, 82, 65, 84, 69, 95, 76, 73, 77, 73, 84, 95, 77, 65, 88, 61, 53>>,  \* "AUTH_RATE_LIMIT_MAX=5"
     <<65, 76, 76, 79, 87, 69, 68, 95, 79, 82, 73, 71, 73, 78, 83, 61>>,  \* "ALLOWED_ORIGINS="
     <<68, 89, 78, 65, 77, 79, 68, 66, 95, 69, 78, 68, 80, 79, 73, 78, 84, 61, 104, 116, 116, 112, 58, 47, 47, 108, 111, 99, 97, 108, 104, 111, 115, 116, 58, 56, 48, 48, 48>> >>  \* "DYNAMODB_ENDPOINT=http://localhost:8000"

\* "99999"
Port99999 == <<57, 57, 57, 57, 57>>

\* "8080"
Port8080 == <<56, 48, 56, 48>>

\* "65535"
Port65535 == <<54, 53, 53, 51, 53>>

Succeeded == ret = <<0>>

Declined == "overwrite" \in DOMAIN yn /\ yn["overwrite"] = FALSE

Last(s) == s[Len(s)]

\* the operator's latest answer to the overwrite prompt is a 'no' answer
AnsweredNo ==
  /\ file0 # NoFile
  /\ call = "overwrite"
  /\ hist # <<>>
  /\ Lower(Strip(Last(hist))) \in No \cup {<<>>}

\* C1: when the .env file exists and the operator answers the overwrite
\* prompt with n, no or an empty line, main() ends with the file as it was
\* before the run, no field prompt is shown, and the exit status is 0.
C1_DeclineKeepsFile ==
  AnsweredNo =>
    /\ pc \in {"returned", "exited"}
    /\ ret = <<>>
    /\ file = file0
    /\ shown = {"overwrite"}
    /\ pc = "exited" => status = 0

C1_Witness ==
  /\ AnsweredNo
  /\ Last(hist) = <<>>
  /\ Len(hist) = 2
  /\ pc = "exited"
  /\ status = 0
  /\ file = OldEnv

\* the state of the run; a run ended by an exception ended in the state
\* whose prompt raised it
Phase ==
  CASE pc = "start" -> "Start"
    [] pc \in {"check", "overwrite"} -> "CheckExisting"
    [] pc \in {"generate", "useLocal"} \cup FieldSet -> "Collect"
    [] pc = "write" -> "Write"
    [] pc \in {"raised", "returned", "exited"} ->
         IF exc # "none"
         THEN (IF call = "overwrite" THEN "CheckExisting" ELSE "Collect")
         ELSE IF ret = <<>> THEN "Abort"
         ELSE IF ret = <<0>> THEN "Success"
         ELSE "Fail"
    [] OTHER -> "none"

Edges ==
  { <<"Start", "CheckExisting">>, <<"CheckExisting", "Abort">>,
    <<"CheckExisting", "Collect">>, <<"Collect", "Write">>,
    <<"Write", "Success">>, <<"Write", "Fail">> }

\* C2: the run moves along Start -> CheckExisting -> (Abort | Collect) ->
\* Write -> (Success | Fail); Abort is reached only when the file is present
\* and the operator declined, CheckExisting is left for Collect in every
\* other case, and Write is entered only with every field assigned.
C2_StateMachine ==
  /\ [][Phase' = Phase \/ <<Phase, Phase'>> \in Edges]_vars
  /\ [](Phase = "Abort" => file0 # NoFile /\ Declined)
  /\ [][(Phase = "CheckExisting" /\ Phase' # Phase
           /\ ~(file0 # NoFile /\ Declined'))
          => Phase' = "Collect"]_vars
  /\ [](pc = "write" => DOMAIN config = FieldSet)

C2_Witness ==
  /\ pc = "write"
  /\ file0 # NoFile
  /\ "overwrite" \in DOMAIN yn
  /\ yn["overwrite"] = TRUE
  /\ DOMAIN config = FieldSet

\* C3: the exit status is 1 exactly when opening or writing the file fails
\* and 0 in every other terminating run; the failure is caught and reported
\* and no exception leaves main().
C3_ExitStatus ==
  pc = "exited" =>
    /\ status \in {0, 1}
    /\ status = 1 <=> "Error writing" \in printed
    /\ exc = "none"
    /\ "Traceback" \notin printed

\* the lines of a text, without their newlines
LineStarts(t) == {i \in 1..Len(t) : i = 1 \/ t[i - 1] = 10}

\* the last position of the line that starts at s, its newline excluded
LineEnd(t, s) ==
  IF \E j \in s..Len(t) : t[j] = 10
  THEN (CHOOSE j \in s..Len(t) :
          t[j] = 10 /\ \A i \in s..(j - 1) : t[i] # 10) - 1
  ELSE Len(t)

LineAt(t, s) == SubSeq(t, s, LineEnd(t, s))

Lines(f) ==
  LET S == LineStarts(f)
      nth(k) == CHOOSE s \in S : Cardinality({x \in S : x < s}) = k - 1
  IN  [k \in 1..Cardinality(S) |-> LineAt(f, nth(k))]

HasLine(f, l) == \E s \in LineStarts(f) : LineAt(f, s) = l

KeyPrefix(k) == KeyChars[k] \o <<61>>

HasKey(f, k) == \E s \in LineStarts(f) : IsPrefix(KeyPrefix(k), LineAt(f, s))

\* the text after KEY= in the file's line for key k
ValueOf(f, k) ==
  LET l == LineAt(f, CHOOSE s \in LineStarts(f) :
                       IsPrefix(KeyPrefix(k), LineAt(f, s)))
  IN  SubSeq(l, Len(KeyPrefix(k)) + 1, Len(l))

\* C4: in a successfully written file the Database Configuration header and
\* the DYNAMODB_ENDPOINT line are present exactly when the operator answered
\* yes to "Use local DynamoDB endpoint?", and the value then is a non-empty
\* string that validate_url accepts.
C4_DatabaseSection ==
  Succeeded =>
    /\ HasLine(file, HdrDatabase) <=> yn["useLocal"]
    /\ HasKey(file, "DYNAMODB_ENDPOINT") <=> yn["useLocal"]
    /\ yn["useLocal"] =>
         /\ ValueOf(file, "DYNAMODB_ENDPOINT") # <<>>
         /\ validate_url(ValueOf(file, "DYNAMODB_ENDPOINT"))

C4_Witness ==
  /\ Succeeded
  /\ yn["useLocal"]
  /\ HasLine(file, HdrDatabase)
  /\ HasKey(file, "DYNAMODB_ENDPOINT")

C4_WitnessNo ==
  /\ Succeeded
  /\ ~yn["useLocal"]
  /\ ~HasLine(file, HdrDatabase)

\* neither empty nor a comment (# is 35)
IsKeyLine(l) == l # <<>> /\ l[1] # 35

KeyLines(f) == SelectSeq(Lines(f), IsKeyLine)

\* entries of DocumentedDefaults for which the claim names no value
ValueLess == {1, 6, 7, 16}

\* 0-9 and a-f
IsHex(s) ==
  \A i \in 1..Len(s) : (48 <= s[i] /\ s[i] <= 57) \/ (97 <= s[i] /\ s[i] <= 102)

\* every prompt was answered with an empty line and the write succeeded
AllDefaultsAccepted == Succeeded /\ typed = 0

\* C5 as stated: with every prompt answered by an empty line, the file holds
\* the seventeen fields in order with their documented defaults, the last
\* being DYNAMODB_ENDPOINT=http://localhost:8000.
C5_AllDefaults_Stated ==
  AllDefaultsAccepted =>
    /\ Len(KeyLines(file)) = Len(DocumentedDefaults)
    /\ \A i \in 1..Len(DocumentedDefaults) :
         IF i \in ValueLess
         THEN IsPrefix(DocumentedDefaults[i], KeyLines(file)[i])
         ELSE KeyLines(file)[i] = DocumentedDefaults[i]

\* C5 (amended): with every prompt answered by an empty line, the file holds
\* the first sixteen fields in order with their documented defaults (the
\* generated 64-character secret, empty AWS keys) and no Database section.
C5_AllDefaults ==
  AllDefaultsAccepted =>
    /\ \E secret \in GeneratedSecrets : file = AllDefaultsFile(secret)
    /\ Len(ValueOf(file, "JWT_SECRET")) = 64
    /\ IsHex(ValueOf(file, "JWT_SECRET"))
    /\ Len(KeyLines(file)) = Len(DocumentedDefaults) - 1
    /\ \A i \in 1..(Len(DocumentedDefaults) - 1) :
         IF i \in ValueLess
         THEN IsPrefix(DocumentedDefaults[i], KeyLines(file)[i])
         ELSE KeyLines(file)[i] = DocumentedDefaults[i]
    /\ ~HasKey(file, "DYNAMODB_ENDPOINT")
    /\ ~HasLine(file, HdrDatabase)

C5_Witness ==
  /\ AllDefaultsAccepted
  /\ pc = "exited"
  /\ file0 = NoFile
  /\ Len(Lines(file)) = 26

\* the text of p without the surrounding whitespace int() allows and one
\* leading sign (+ is 43, - is 45, _ is 95)
LiteralBody(p) ==
  LET t == RStripInt(LStripInt(p))
  IN  IF t # <<>> /\ t[1] \in {43, 45} THEN Tail(t) ELSE t

\* p is an integer literal: digits, single underscores only between digits
IsIntegerLiteral(p) ==
  LET b == LiteralBody(p)
  IN  /\ b # <<>>
      /\ \A i \in 1..Len(b) : IsDecimal(b[i]) \/ b[i] = 95
      /\ b[1] # 95
      /\ b[Len(b)] # 95
      /\ \A i \in 1..(Len(b) - 1) : ~(b[i] = 95 /\ b[i + 1] = 95)

RECURSIVE Pow10(_)
Pow10(n) == IF n = 0 THEN 1 ELSE 10 * Pow10(n - 1)

RECURSIVE Positional(_, _)
Positional(d, i) ==
  IF i > Len(d) THEN 0
  ELSE DecimalValue(d[i]) * Pow10(Len(d) - i) + Positional(d, i + 1)

LiteralValue(p) ==
  LET mag == Positional(SelectSeq(LiteralBody(p), IsDecimal), 1)
  IN  IF LStripInt(p)[1] = 45 THEN 0 - mag ELSE mag

InRange(p, lo, hi) ==
  IsIntegerLiteral(p) /\ lo <= LiteralValue(p) /\ LiteralValue(p) <= hi

\* C6: validate_port(p) is true exactly when p is an integer literal with a
\* value from 1 to 65535, and false (never an exception) otherwise.
C6_ValidatePort ==
  pc = "validate_port_done" =>
    /\ res[1] \in BOOLEAN
    /\ res[1] <=> InRange(arg, 1, 65535)

C6_Witness ==
  /\ pc = "validate_port_done"
  /\ arg = Port65535
  /\ res = <<TRUE>>

\* what get_input makes of a line: stripped, the default for an empty one
Entered(f, line) ==
  IF Strip(line) = <<>> /\ Default[f] # <<>> THEN Default[f] ELSE Strip(line)

\* the get_input call for field call has returned
InputReturned ==
  /\ call \in FieldSet
  /\ pc # call
  /\ exc = "none"

\* C7: get_input returns the first response that, stripped and with the
\* default for an empty line, the validator accepts; it re-prompts once for
\* each rejected response before it; 99999 then 8080 at "Server port" gives
\* one re-prompt and PORT=8080.
C7_GetInput ==
  /\ InputReturned =>
       /\ call \in DOMAIN config
       /\ config[call] = Entered(call, Last(hist))
       /\ Validator(call, config[call]) = "accept"
       /\ \A i \in 1..(Len(hist) - 1) :
            Validator(call, Entered(call, hist[i])) = "reject"
       /\ reprompts = Len(hist) - 1
  /\ (call \in FieldSet /\ pc = call) =>
       /\ \A i \in 1..Len(hist) :
            Validator(call, Entered(call, hist[i])) = "reject"
       /\ reprompts = Len(hist)
  /\ (InputReturned /\ call = "PORT" /\ hist = <<Port99999, Port8080>>) =>
       (reprompts = 1 /\ config["PORT"] = Port8080)

C7_Witness ==
  /\ InputReturned
  /\ call = "PORT"
  /\ hist = <<Port99999, Port8080>>
  /\ reprompts = 1
  /\ config["PORT"] = Port8080

C7_WitnessDefault ==
  /\ InputReturned
  /\ call = "PORT"
  /\ hist = <<Port99999, <<>> >>
  /\ config["PORT"] = Default["PORT"]

YesNoPrompts == {"overwrite", "generate", "useLocal"}

\* the default argument of each get_yes_no call
YesNoDefault(p) == IF p = "generate" THEN <<121>> ELSE <<110>>

\* a and b are the same text up to the case of the letters A-Z
EqualIgnoringCase(a, b) ==
  /\ Len(a) = Len(b)
  /\ \A i \in 1..Len(a) : a[i] = b[i] \/ (a[i] \in 65..90 /\ a[i] + 32 = b[i])

SaysYes(line) == \E w \in Yes : EqualIgnoringCase(Strip(line), w)

SaysNo(line) == \E w \in No : EqualIgnoringCase(Strip(line), w)

Recognised(line) == SaysYes(line) \/ SaysNo(line) \/ Strip(line) = <<>>

\* C8: get_yes_no returns true exactly for y or yes, false exactly for n or
\* no (case-insensitively, stripped), takes an empty line as the default
\* answer, and re-prompts without returning on anything else.
C8_GetYesNo ==
  /\ (call \in YesNoPrompts /\ pc # call /\ exc = "none") =>
       /\ call \in DOMAIN yn
       /\ SaysYes(Last(hist)) => yn[call] = TRUE
       /\ SaysNo(Last(hist)) => yn[call] = FALSE
       /\ Strip(Last(hist)) = <<>> => yn[call] = (YesNoDefault(call) = <<121>>)
       /\ Recognised(Last(hist))
       /\ \A i \in 1..(Len(hist) - 1) : ~Recognised(hist[i])
       /\ reprompts = Len(hist) - 1
  /\ (call \in YesNoPrompts /\ pc = call) =>
       /\ call \notin DOMAIN yn
       /\ \A i \in 1..Len(hist) : ~Recognised(hist[i])
       /\ reprompts = Len(hist)

C8_Witness ==
  /\ call = "useLocal"
  /\ pc = "DYNAMODB_ENDPOINT"
  /\ Len(hist) = 2
  /\ SaysYes(Last(hist))
  /\ Last(hist) \notin Yes
  /\ yn["useLocal"] = TRUE

C8_WitnessDefault ==
  /\ call = "generate"
  /\ pc # call
  /\ Last(hist) = <<>>
  /\ yn["generate"] = TRUE

\* C9: every field that reaches Write holds a user-supplied value that its
\* validator accepts or its default; AWS_ACCESS_KEY_ID and
\* AWS_SECRET_ACCESS_KEY always hold a non-empty user-supplied value.
C9_RequiredFields ==
  pc = "write" =>
    /\ \A f \in FieldSet \ {"JWT_SECRET", "DYNAMODB_ENDPOINT"} :
         config[f] = Default[f] \/ Validator(f, config[f]) = "accept"
    /\ config["AWS_ACCESS_KEY_ID"] # <<>>
    /\ config["AWS_SECRET_ACCESS_KEY"] # <<>>

IsHttpUrl(u) ==
  \/ IsPrefix(<<104, 116, 116, 112, 58, 47, 47>>, u)
  \/ IsPrefix(<<104, 116, 116, 112, 115, 58, 47, 47>>, u)

\* C10: in a successfully written file NODE_ENV is development, production
\* or test, PORT is an integer from 1 to 65535, BCRYPT_SALT_ROUNDS an integer
\* from 10 to 20, the three rate limits are non-negative integers,
\* FRONTEND_URL is an http(s) URL, and JWT_SECRET is the generated 64
\* hexadecimal characters or a string of at least 32 characters.
C10_FieldConstraints ==
  Succeeded =>
    /\ node_env_validator(ValueOf(file, "NODE_ENV"))
    /\ InRange(ValueOf(file, "PORT"), 1, 65535)
    /\ InRange(ValueOf(file, "BCRYPT_SALT_ROUNDS"), 10, 20)
    /\ \A k \in {"RATE_LIMIT_WINDOW_MS", "RATE_LIMIT_MAX_REQUESTS",
                 "AUTH_RATE_LIMIT_MAX"} :
         /\ IsIntegerLiteral(ValueOf(file, k))
         /\ LiteralValue(ValueOf(file, k)) >= 0
    /\ IsHttpUrl(ValueOf(file, "FRONTEND_URL"))
    /\ \/ Len(ValueOf(file, "JWT_SECRET")) = 64 /\ IsHex(ValueOf(file, "JWT_SECRET"))
       \/ Len(ValueOf(file, "JWT_SECRET")) >= 32

====
